---- MODULE Spec2Model ----
(***************************************************************************)
(* prchecker.py: for every open pull request, merge it into a local clone  *)
(* without committing and run flake8 on the result.                        *)
(*                                                                         *)
(* The external collaborators (git, the checker, the GitHub client, the    *)
(* sh library) are modelled by what the program hands them (argv, cwd)     *)
(* and by what they can hand back: exit status zero, a non-zero exit       *)
(* status (sh raises ErrorReturnCode), or an error of another type.        *)
(***************************************************************************)
EXTENDS Integers, Sequences, FiniteSets, TLC

\* Longest enumeration of open pull requests explored.
MaxPRs == 2

\* ------------------------------------------------------------------ data

\* Value of a configuration name that os.environ does not hold.
Missing == "<missing>"

\* What the process can hand a subprocess back as exit status.
NonZero == {1, 128}
\* Captured output of a failed command (part of the ErrorReturnCode).
Outputs == {"fatal: ..."}

\* mess: the command left its by-product in the clone (a merge that exited
\* 1 its conflicts, the checker its untracked files). To keep the model
\* small a git command other than merge fails with 128 only, and a failing
\* checker leaves files behind exactly when it exits 1.
Exited(n, o, m) == [kind |-> "exit", code |-> n, output |-> o, mess |-> m]
\* The call did not give an exit status: an OSError while spawning.
Spawn_error == [kind |-> "oserror", code |-> -1, output |-> "", mess |-> FALSE]
Failures(M) == {Exited(n, o, m) : n \in NonZero, o \in Outputs, m \in M}
\* fetch, reset, clean, checkout
GitResults ==
    {Exited(0, "", FALSE)} \cup {r \in Failures({FALSE}) : r.code = 128}
        \cup {Spawn_error}
\* A merge that exits 0 either merged into index and work tree or, the base
\* being an ancestor of the head, fast-forwarded (and says so).
MergeResults ==
    {Exited(0, "", FALSE), Exited(0, "Fast-forward", FALSE)}
        \cup {r \in Failures(BOOLEAN) : r.mess <=> r.code = 1}
        \cup {Spawn_error}
CheckerResults ==
    {Exited(0, "", m) : m \in BOOLEAN}
        \cup {r \in Failures(BOOLEAN) : r.mess <=> r.code = 1}
        \cup {Spawn_error}

\* Pull-request records as the enumeration yields them: number, base.ref,
\* head.ref.
PullRequests ==
    { [number |-> 5, base |-> "main", head |-> "feature-x"],
      [number |-> 7, base |-> "main", head |-> "feature-y"] }

RECURSIVE SeqsUpTo(_, _)
SeqsUpTo(S, n) ==
    IF n = 0 THEN {<< >>}
    ELSE LET shorter == SeqsUpTo(S, n - 1)
         IN  shorter \cup {Append(s, x) : s \in {t \in shorter : Len(t) = n - 1}, x \in S}

\* Directories the process can be started in.
StartDirs == {"/home/dev"}
\* Paths that resolve to an executable (sh.Command raises CommandNotFound
\* for any other).
Executables == {"/usr/bin/flake8"}

VARIABLES
    pc,          \* where the process is
    environ,     \* os.environ: configuration name -> value, or Missing
    launch_wd,   \* working directory the process was started in
    cwd,         \* the process's current working directory
    original_wd, \* temp_chdir's saved directory
    prs,         \* what repo.pull_requests(state='open') yields, in order
    cur,         \* how many pull requests the for loop has taken
    tree,        \* state of the local clone
    cmds,        \* every subprocess run so far: position of the pull request, argv,
                 \* cwd, the clone as the command found it, exit status, output
    out,         \* lines printed to standard output
    exc          \* the last exception raised

vars == <<pc, environ, launch_wd, cwd, original_wd, prs, cur, tree, cmds, out, exc>>

NoException == [type |-> "none", full_cmd |-> << >>, exit_code |-> 0, output |-> ""]
\* sh.ErrorReturnCode_<n>: the command run, its exit code and what it wrote.
ErrorReturnCode(argv, r) ==
    [type |-> "ErrorReturnCode", full_cmd |-> argv, exit_code |-> r.code, output |-> r.output]
\* Any exception that is no ErrorReturnCode.
Unexpected(t) == [type |-> t, full_cmd |-> << >>, exit_code |-> 0, output |-> ""]

\* ------------------------------------------------------- ItemAttrs (env)

\* ItemAttrs.__getattr__: self._items[name]; a KeyError when absent.
Has(name) == environ[name] # Missing
Getattr(name) == environ[name]
\* ItemAttrs.__setattr__ and __delattr__: what os.environ holds afterwards.
\* Nothing in the program calls them.
Setattr(name, value) == [environ EXCEPT ![name] = value]
Delattr(name) == [environ EXCEPT ![name] = Missing]

ConfigNames == {"WORK_TREE", "FLAKE8_PATH", "FLAKE8_CONFIG_PATH"}

\* ------------------------------------------------------------ the clone

\* head: where HEAD is; changes: what index and work tree hold on top of
\* HEAD; untracked: untracked or ignored files are present; commits and
\* branches: commits and local branches created since the start.
CleanTree(h) == [head |-> h, changes |-> "none", untracked |-> FALSE, commits |-> 0, branches |-> 0]
InitialTrees ==
    { CleanTree("refs/heads/main"),
      [CleanTree("refs/heads/main") EXCEPT !.changes = "edited", !.untracked = TRUE] }

\* ------------------------------------------------------------- printing

\* A printed line: its format string (without the leading mark character)
\* and what is formatted into it.
Line(text, number, ran, output) ==
    [text |-> text, number |-> number, ran |-> ran, output |-> output]
\* str(e) of an sh.ErrorReturnCode is its message, "RAN: <full_cmd> STDOUT:
\* <stdout> STDERR: <stderr>": the command line and the captured output.
\* The exit code is an attribute of the exception, not part of the message.
Str(e) == [ran |-> e.full_cmd, output |-> e.output]
Checking(pr) == Line("Checking pull request #{}...", pr.number, << >>, "")
Problem(e) == Line("Problem: {}", 0, Str(e).ran, Str(e).output)
LooksGood == Line("Looks good!", 0, << >>, "")

\* --------------------------------------------------- exception handling

\* An exception raised before temp_chdir's try block is entered.
Abort(e) ==
    /\ exc' = e
    /\ pc' = "crashed"
    /\ UNCHANGED <<cwd, out>>

\* temp_chdir without its finally clause.
PropagateNoFinally(e) ==
    /\ exc' = e
    /\ pc' = "crashed"
    /\ UNCHANGED <<cwd, out>>

\* An exception leaving the with block: the finally clause of temp_chdir
\* runs, then the exception leaves check_open_pull_requests.
Propagate(e) ==
    /\ exc' = e
    /\ cwd' = original_wd
    /\ pc' = "crashed"
    /\ out' = out

\* The loop body without the else: of its try statement.
CaughtNoElse(e) ==
    /\ exc' = e
    /\ out' = Append(Append(out, Problem(e)), LooksGood)
    /\ pc' = "loop"
    /\ cwd' = cwd

\* The problem printed without the exception.
CaughtNoDetail(e) ==
    /\ exc' = e
    /\ out' = Append(out, Line("Problem: {}", 0, << >>, ""))
    /\ pc' = "loop"
    /\ cwd' = cwd

\* A failed pull request tried a second time before it is reported.
CaughtRetryOnce(e) ==
    /\ exc' = e
    /\ cwd' = cwd
    /\ IF Len(SelectSeq(cmds, LAMBDA c : c.pr = cur /\ c.step = "fetch")) < 2
       THEN pc' = "fetch" /\ out' = out
       ELSE pc' = "loop" /\ out' = Append(out, Problem(e))

\* The with block inside the loop body: a failure leaves the work tree.
CaughtLeavesWorkTree(e) ==
    /\ exc' = e
    /\ out' = Append(out, Problem(e))
    /\ pc' = "loop"
    /\ cwd' = original_wd

\* except ErrorReturnCode as e: print the problem, go on with the loop.
Caught(e) ==
    /\ exc' = e
    /\ out' = Append(out, Problem(e))
    /\ pc' = "loop"
    /\ cwd' = cwd

\* The loop body without its except clause.
HandleNothing(e) == Propagate(e)

\* The loop body with except Exception.
HandleAnything(e) == Caught(e)

\* An exception raised inside the try block of the loop body.
Handle(e) ==
    IF e.type = "ErrorReturnCode" THEN Caught(e) ELSE Propagate(e)

\* ----------------------------------------------------------- subprocess

Invocation(step, argv, r) ==
    [pr |-> cur, step |-> step, argv |-> argv, cwd |-> cwd, found |-> tree,
     exit |-> r.code, said |-> r.output]

\* One sh call of merge_and_check that is followed by another: the command
\* runs in the current directory; exit status zero goes on to the next
\* statement, anything else raises.
Run(step, argv, r, done_tree, failed_tree, next) ==
    IF r.kind = "oserror"
    THEN /\ Handle(Unexpected("OSError"))
         /\ UNCHANGED <<cmds, tree>>
    ELSE /\ cmds' = Append(cmds, Invocation(step, argv, r))
         /\ IF r.code = 0
            THEN /\ tree' = done_tree
                 /\ pc' = next
                 /\ UNCHANGED <<cwd, out, exc>>
            ELSE /\ tree' = failed_tree
                 /\ Handle(ErrorReturnCode(argv, r))

\* ------------------------------------------------------ merge_and_check

FetchArgv == <<"git", "fetch">>
ResetArgv == <<"git", "reset", "--hard">>
CleanArgv == <<"git", "clean", "-dfx">>
CheckoutArgv(base) == <<"git", "checkout", "origin/" \o base>>
MergeArgvCommitting(head) == <<"git", "merge", "origin/" \o head>>
MergeArgv(head) == <<"git", "merge", "origin/" \o head, "--no-commit">>
CheckerArgvBare(path, config) == <<path>>
CheckerArgv(path, config) == <<path, "cemt", "--config=" \o config>>

Loop == <<environ, launch_wd, original_wd, prs, cur>>

\* merge_and_check without its reset.
GitFetchThenClean(r) ==
    /\ pc = "fetch"
    /\ Run("fetch", FetchArgv, r, tree, tree, "clean")
    /\ UNCHANGED Loop

GitFetch(r) ==
    /\ pc = "fetch"
    /\ Run("fetch", FetchArgv, r, tree, tree, "reset")
    /\ UNCHANGED Loop

\* merge_and_check without its clean.
GitResetThenCheckout(r) ==
    /\ pc = "reset"
    /\ Run("reset", ResetArgv, r, [tree EXCEPT !.changes = "none"], tree, "checkout")
    /\ UNCHANGED Loop

GitReset(r) ==
    /\ pc = "reset"
    /\ Run("reset", ResetArgv, r, [tree EXCEPT !.changes = "none"], tree, "clean")
    /\ UNCHANGED Loop

\* A clean that removes nothing (a dry run).
GitCleanRemovesNothing(r) ==
    /\ pc = "clean"
    /\ Run("clean", CleanArgv, r, tree, tree, "checkout")
    /\ UNCHANGED Loop

GitClean(r) ==
    /\ pc = "clean"
    /\ Run("clean", CleanArgv, r, [tree EXCEPT !.untracked = FALSE], tree, "checkout")
    /\ UNCHANGED Loop

\* git checkout <ref>: HEAD is at <ref>; a remote-tracking ref leaves it
\* detached, the name of a local branch puts it on that branch.
Checkout(argv, t) == [t EXCEPT !.head = argv[3]]

GitCheckout(r) ==
    /\ pc = "checkout"
    /\ Run("checkout", CheckoutArgv(prs[cur].base), r,
           Checkout(CheckoutArgv(prs[cur].base), tree), tree, "merge")
    /\ UNCHANGED Loop

\* git merge <ref> exiting 0: a fast-forward moves HEAD to <ref> and makes no
\* commit, with or without --no-commit; otherwise --no-commit leaves the
\* merge in index and work tree, and without it a merge commit is made.
Merge(argv, r, t) ==
    IF r.output = "Fast-forward" THEN [t EXCEPT !.head = argv[3]]
    ELSE IF \E k \in 1..Len(argv) : argv[k] = "--no-commit"
    THEN [t EXCEPT !.changes = "merged"]
    ELSE [t EXCEPT !.commits = @ + 1]

\* A merge whose non-zero exit is accepted (_ok_code).
GitMergeTolerant(r) ==
    /\ pc = "merge"
    /\ r.kind = "exit"
    /\ cmds' = Append(cmds, Invocation("merge", MergeArgv(prs[cur].head), r))
    /\ tree' = [tree EXCEPT !.changes = IF r.code = 0 THEN "merged" ELSE "conflict"]
    /\ pc' = "check"
    /\ UNCHANGED <<cwd, out, exc>>
    /\ UNCHANGED Loop

GitMerge(r) ==
    /\ pc = "merge"
    /\ Run("merge", MergeArgv(prs[cur].head), r,
           Merge(MergeArgv(prs[cur].head), r, tree),
           IF r.mess THEN [tree EXCEPT !.changes = "conflict"] ELSE tree,
           "check")
    /\ UNCHANGED Loop

\* Command(env.FLAKE8_PATH)('cemt', config=env.FLAKE8_CONFIG_PATH), then
\* the else clause of the loop body's try statement.
RunChecker(r) ==
    /\ pc = "check"
    /\ IF ~Has("FLAKE8_PATH")
       THEN Handle(Unexpected("KeyError")) /\ UNCHANGED <<cmds, tree>>
       ELSE IF Getattr("FLAKE8_PATH") \notin Executables
       THEN Handle(Unexpected("CommandNotFound")) /\ UNCHANGED <<cmds, tree>>
       ELSE IF ~Has("FLAKE8_CONFIG_PATH")
       THEN Handle(Unexpected("KeyError")) /\ UNCHANGED <<cmds, tree>>
       ELSE IF r.kind = "oserror"
       THEN Handle(Unexpected("OSError")) /\ UNCHANGED <<cmds, tree>>
       ELSE LET argv == CheckerArgv(Getattr("FLAKE8_PATH"), Getattr("FLAKE8_CONFIG_PATH"))
            IN  /\ cmds' = Append(cmds, Invocation("check", argv, r))
                /\ tree' = IF r.mess THEN [tree EXCEPT !.untracked = TRUE] ELSE tree
                /\ IF r.code = 0
                   THEN /\ out' = Append(out, LooksGood)
                        /\ pc' = "loop"
                        /\ UNCHANGED <<cwd, exc>>
                   ELSE Handle(ErrorReturnCode(argv, r))
    /\ UNCHANGED Loop

\* -------------------------------------------- check_open_pull_requests

\* The fetch hoisted out of the loop.
EnterWorkTreeAndFetch(chdir_ok) ==
    /\ pc = "start"
    /\ Has("WORK_TREE")
    /\ chdir_ok
    /\ original_wd' = cwd
    /\ cwd' = Getattr("WORK_TREE")
    /\ pc' = "fetch"
    /\ UNCHANGED <<out, exc, environ, launch_wd, prs, cur, tree, cmds>>

\* The checker's configuration looked up when the run starts.
EnterWorkTreeValidating(chdir_ok) ==
    /\ pc = "start"
    /\ IF ~Has("WORK_TREE") \/ ~Has("FLAKE8_PATH") \/ ~Has("FLAKE8_CONFIG_PATH")
       THEN Abort(Unexpected("KeyError")) /\ original_wd' = original_wd
       ELSE /\ original_wd' = cwd
            /\ IF chdir_ok
               THEN /\ cwd' = Getattr("WORK_TREE")
                    /\ pc' = "loop"
                    /\ UNCHANGED <<out, exc>>
               ELSE Abort(Unexpected("OSError"))
    /\ UNCHANGED <<environ, launch_wd, prs, cur, tree, cmds>>

\* with temp_chdir(env.WORK_TREE): look the path up, save the current
\* directory, change to the path.
EnterWorkTree(chdir_ok) ==
    /\ pc = "start"
    /\ IF ~Has("WORK_TREE")
       THEN Abort(Unexpected("KeyError")) /\ original_wd' = original_wd
       ELSE /\ original_wd' = cwd
            /\ IF chdir_ok
               THEN /\ cwd' = Getattr("WORK_TREE")
                    /\ pc' = "loop"
                    /\ UNCHANGED <<out, exc>>
               ELSE Abort(Unexpected("OSError"))
    /\ UNCHANGED <<environ, launch_wd, prs, cur, tree, cmds>>

\* The checker started in the background: the loop goes on while it runs.
NextPullRequestEarly ==
    /\ pc \in {"loop", "check"}
    /\ cur < Len(prs)
    /\ cur' = cur + 1
    /\ out' = Append(out, Checking(prs[cur + 1]))
    /\ pc' = "fetch"
    /\ UNCHANGED <<environ, launch_wd, cwd, original_wd, prs, tree, cmds, exc>>

\* The loop body dropping the checker's configuration file after a pull
\* request (del env.FLAKE8_CONFIG_PATH).
NextPullRequestDeletesConfig ==
    /\ pc = "loop"
    /\ cur < Len(prs)
    /\ cur' = cur + 1
    /\ out' = Append(out, Checking(prs[cur + 1]))
    /\ pc' = "fetch"
    /\ environ' = IF cur >= 1 THEN Delattr("FLAKE8_CONFIG_PATH") ELSE environ
    /\ UNCHANGED <<launch_wd, cwd, original_wd, prs, tree, cmds, exc>>

\* The for statement takes the next pull request; the body prints its notice.
NextPullRequest ==
    /\ pc = "loop"
    /\ cur < Len(prs)
    /\ cur' = cur + 1
    /\ out' = Append(out, Checking(prs[cur + 1]))
    /\ pc' = "fetch"
    /\ UNCHANGED <<environ, launch_wd, cwd, original_wd, prs, tree, cmds, exc>>

\* The enumeration is exhausted: the with block ends, temp_chdir's finally
\* clause runs.
LoopDone ==
    /\ pc = "loop"
    /\ cur = Len(prs)
    /\ cwd' = original_wd
    /\ pc' = "done"
    /\ UNCHANGED <<environ, launch_wd, original_wd, prs, cur, tree, cmds, out, exc>>

\* The enumeration raises (a network error) instead of yielding.
EnumerationFails ==
    /\ pc = "loop"
    /\ Propagate(Unexpected("ConnectionError"))
    /\ UNCHANGED <<environ, launch_wd, original_wd, prs, cur, tree, cmds>>

\* -------------------------------------------------------- specification

Init ==
    /\ pc = "start"
    /\ environ \in [ConfigNames -> {Missing, "/srv/clone", "/usr/bin/flake8", "/no/flake8", "setup.cfg"}]
    /\ environ["WORK_TREE"] \in {Missing, "/srv/clone"}
    /\ environ["FLAKE8_PATH"] \in {Missing, "/usr/bin/flake8", "/no/flake8"}
    /\ environ["FLAKE8_CONFIG_PATH"] \in {Missing, "setup.cfg"}
    /\ launch_wd \in StartDirs
    /\ cwd = launch_wd
    /\ original_wd = "<unset>"
    /\ prs \in SeqsUpTo(PullRequests, MaxPRs)
    /\ cur = 0
    /\ tree \in InitialTrees
    /\ cmds = << >>
    /\ out = << >>
    /\ exc = NoException

Next ==
    \/ \E ok \in BOOLEAN : EnterWorkTree(ok)
    \/ NextPullRequest
    \/ \E r \in GitResults : GitFetch(r)
    \/ \E r \in GitResults : GitReset(r)
    \/ \E r \in GitResults : GitClean(r)
    \/ \E r \in GitResults : GitCheckout(r)
    \/ \E r \in MergeResults : GitMerge(r)
    \/ \E r \in CheckerResults : RunChecker(r)
    \/ LoopDone
    \/ EnumerationFails

Spec == Init /\ [][Next]_vars

\* Every call is synchronous and the process is single-threaded: as long as
\* the external calls return, the process takes its next step.
FairSpec == Spec /\ WF_vars(Next)

\* =============================================================== claims

Finished == pc \in {"done", "crashed"}
UnexpectedTypes == {"KeyError", "CommandNotFound", "OSError", "ConnectionError"}
\* The exception in flight is not a command failure.
UnexpectedRaised == exc.type \in UnexpectedTypes
\* The commands run for the pull request at position i.
CmdsOf(i) == SelectSeq(cmds, LAMBDA c : c.pr = i)
Ran(i, step) == {k \in 1..Len(cmds) : cmds[k].pr = i /\ cmds[k].step = step}
Merged(i) == \E k \in Ran(i, "merge") : cmds[k].exit = 0
\* The run ended at position i between its merge and its checker.
StoppedBeforeChecker(i) ==
    /\ pc = "crashed"
    /\ cur = i
    /\ exc.type \in {"KeyError", "CommandNotFound", "OSError"}
\* The loop body is still at work on the pull request at position cur, or
\* was when the run ended.
InProgress ==
    \/ pc \in {"fetch", "reset", "clean", "checkout", "merge", "check"}
    \/ pc = "crashed" /\ cur >= 1 /\ exc.type \in {"KeyError", "CommandNotFound", "OSError"}
Completed(i) == i < cur \/ (i = cur /\ ~InProgress)

\* C1 (as stated): over a whole run the checker is invoked at most N times,
\* exactly once for each pull request whose merge step succeeded and zero
\* times for each whose merge step failed.
C1_AsStated ==
    Finished =>
        /\ Cardinality({k \in 1..Len(cmds) : cmds[k].step = "check"}) <= Len(prs)
        /\ \A i \in 1..Len(prs) :
              Cardinality(Ran(i, "check")) = IF Merged(i) THEN 1 ELSE 0

\* C1 (amended): over a whole run the checker is invoked at most N times,
\* zero times for a pull request whose merge step did not succeed, and
\* exactly once for a pull request whose merge step succeeded, except for
\* the pull request at which an unexpected error (a missing FLAKE8_PATH or
\* FLAKE8_CONFIG_PATH, a checker path that is no command, an error starting
\* it) ended the run: for that one it is invoked zero times.
C1_CheckerOncePerMergedPR ==
    Finished =>
        /\ Cardinality({k \in 1..Len(cmds) : cmds[k].step = "check"}) <= Len(prs)
        /\ \A i \in 1..Len(prs) :
              Cardinality(Ran(i, "check")) =
                  IF Merged(i) /\ ~StoppedBeforeChecker(i) THEN 1 ELSE 0

C1_Witness ==
    /\ pc = "done"
    /\ Len(prs) = 2
    /\ Merged(1) /\ Cardinality(Ran(1, "check")) = 1
    /\ Ran(2, "merge") # {} /\ ~Merged(2) /\ Ran(2, "check") = {}

\* C2: within one call of merge_and_check the commands run in the order
\* fetch, reset --hard, clean -dfx, checkout origin/<base>, merge
\* origin/<head> --no-commit, checker, and a command is started only if
\* every earlier command of the call exited with status zero.
C2_Order ==
    \A i \in 1..cur :
        LET ran == CmdsOf(i)
            git == << <<"git", "fetch">>,
                      <<"git", "reset", "--hard">>,
                      <<"git", "clean", "-dfx">>,
                      <<"git", "checkout", "origin/" \o prs[i].base>>,
                      <<"git", "merge", "origin/" \o prs[i].head, "--no-commit">> >>
        IN  /\ Len(ran) <= 6
            /\ \A k \in 1..Len(ran) :
                  /\ k <= 5 => ran[k].argv = git[k]
                  /\ k = 6 => ran[k].step = "check"
                  /\ k < Len(ran) => ran[k].exit = 0

C2_Witness ==
    /\ Len(CmdsOf(1)) = 6
    /\ Len(CmdsOf(2)) = 3 /\ CmdsOf(2)[3].exit # 0
    /\ pc = "loop"

\* C3: whenever check_open_pull_requests exits, normally or by an
\* unexpected error, the current working directory is the one the process
\* had before the loop changed it.
C3_DirectoryRestored == Finished => cwd = launch_wd

C3_Witness ==
    /\ pc = "crashed"
    /\ cur = 2
    /\ exc.type = "OSError"
    /\ launch_wd # Getattr("WORK_TREE")
    /\ cwd = launch_wd

\* C4: a command that exits non-zero never ends the run: the failure is
\* caught and the loop goes on, so a run that no unexpected error ends
\* attempts every pull request of the enumeration.
C4_LoopContinues ==
    /\ pc = "crashed" => UnexpectedRaised
    /\ pc = "done" =>
          /\ cur = Len(prs)
          /\ \A i \in 1..Len(prs) : CmdsOf(i) # << >> /\ Checking(prs[i]) = out[2 * i - 1]

C4_Witness ==
    /\ pc = "done"
    /\ Len(prs) = 2
    /\ \A i \in 1..2 : \E k \in 1..Len(cmds) : cmds[k].pr = i /\ cmds[k].exit # 0

\* C5 (as stated): every invocation of the checker passes no arguments to
\* the checker executable and runs in the work tree.
C5_AsStated ==
    \A k \in 1..Len(cmds) :
        cmds[k].step = "check" =>
            /\ Len(cmds[k].argv) = 1
            /\ cmds[k].cwd = Getattr("WORK_TREE")

\* C5 (amended): every invocation of the checker runs the executable named
\* by FLAKE8_PATH with the two arguments cemt and --config=<the value of
\* FLAKE8_CONFIG_PATH>, in the work tree, after the merge of that pull
\* request succeeded.
C5_CheckerArguments ==
    \A k \in 1..Len(cmds) :
        cmds[k].step = "check" =>
            /\ cmds[k].argv =
                  <<environ["FLAKE8_PATH"], "cemt", "--config=" \o environ["FLAKE8_CONFIG_PATH"]>>
            /\ cmds[k].cwd = environ["WORK_TREE"]
            /\ Merged(cmds[k].pr)

C5_Witness ==
    \E k \in 1..Len(cmds) : cmds[k].step = "check" /\ cmds[k].exit = 0

\* All six commands ran for position i and exited with status zero.
AllSixZero(i) ==
    /\ Len(CmdsOf(i)) = 6
    /\ \A k \in 1..6 : CmdsOf(i)[k].exit = 0

\* C6: a pull request the loop body is done with has exactly one outcome
\* line after its "Checking" line: the success notice if all six commands
\* exited with status zero, the failure notice if one exited non-zero.
C6_OneNoticeEach ==
    /\ Len(out) = 2 * cur - (IF InProgress THEN 1 ELSE 0)
    /\ \A i \in 1..cur :
          /\ out[2 * i - 1] = Checking(prs[i])
          /\ Completed(i) =>
                /\ out[2 * i].text \in {"Looks good!", "Problem: {}"}
                /\ out[2 * i].text = "Looks good!" <=> AllSixZero(i)
                /\ out[2 * i].text = "Problem: {}" <=>
                      \E k \in 1..Len(cmds) : cmds[k].pr = i /\ cmds[k].exit # 0

C6_Witness ==
    /\ pc = "done"
    /\ Len(prs) = 2
    /\ AllSixZero(1) /\ out[2] = LooksGood
    /\ ~AllSixZero(2) /\ out[4].text = "Problem: {}"

\* What the exit status of a command can depend on besides its arguments
\* and the remote: nothing in the clone for fetch, reset --hard and
\* clean -dfx; local changes and untracked files for checkout; the whole
\* state of the clone for merge and the checker.
Observed(c) ==
    CASE c.step \in {"fetch", "reset", "clean"} -> << >>
      [] c.step = "checkout" -> <<c.found.changes, c.found.untracked>>
      [] OTHER -> <<c.found.head, c.found.changes, c.found.untracked>>
\* Between the two calls the remote and the commands behaved the same: a
\* command given the same arguments that found the same things exited alike
\* and wrote the same.
SameBehaviour ==
    \A j, k \in 1..Len(cmds) :
        /\ cmds[j].pr = 1
        /\ cmds[k].pr = 2
        /\ cmds[j].argv = cmds[k].argv
        /\ Observed(cmds[j]) = Observed(cmds[k])
        => cmds[j].exit = cmds[k].exit /\ cmds[j].said = cmds[k].said
TwiceInARow ==
    /\ Len(prs) = 2
    /\ prs[1].base = prs[2].base
    /\ prs[1].head = prs[2].head
    /\ Completed(2)

\* C7: merge_and_check run twice in a row for the same (base, head), the
\* remote and the commands behaving the same both times, gives the same
\* pass/fail outcome both times, whatever the first call left in the clone.
C7_Idempotent ==
    TwiceInARow /\ SameBehaviour => out[2].text = out[4].text

\* The first call left a conflicted merge and untracked files behind and
\* the second call met them.
C7_Witness ==
    /\ TwiceInARow
    /\ SameBehaviour
    /\ \E k \in 1..Len(cmds) :
          /\ cmds[k].pr = 2
          /\ cmds[k].step = "reset"
          /\ cmds[k].found.changes \in {"merged", "conflict"}
          /\ cmds[k].found.untracked
    /\ AllSixZero(2)

\* C8: an error that is no command failure ends the run where it is
\* raised: it prints no outcome line, leaves the clone and the list of
\* commands run as they were, and no step follows it.
C8_UnexpectedErrorEndsRun ==
    /\ [](UnexpectedRaised => pc = "crashed")
    /\ [][ /\ pc # "crashed"
           /\ UnexpectedRaised' =>
                 /\ out' = out
                 /\ tree' = tree
                 /\ cmds' = cmds
                 /\ cur' = cur ]_vars

C8_Witness ==
    /\ pc = "crashed"
    /\ exc.type = "CommandNotFound"
    /\ cur = 1 /\ Len(prs) = 2
    /\ Len(out) = 1
    /\ tree.changes = "merged"

\* The first command of position i that exited non-zero.
FirstFailure(i) ==
    LET ran == CmdsOf(i)
    IN  ran[CHOOSE k \in 1..Len(ran) :
              ran[k].exit # 0 /\ \A j \in 1..(k - 1) : ran[j].exit = 0]
Failed(i) == \E k \in 1..Len(cmds) : cmds[k].pr = i /\ cmds[k].exit # 0

C10_EmptyEnumeration ==
    /\ [](prs = << >> =>
            /\ cmds = << >>
            /\ out = << >>
            /\ pc \in {"start", "loop", "done", "crashed"}
            /\ pc = "crashed" => exc.type \in {"KeyError", "OSError", "ConnectionError"})
    /\ [][prs = << >> /\ pc = "loop" /\ exc' = exc => pc' = "done"]_vars

C10_Witness == prs = << >> /\ pc = "done" /\ cmds = << >> /\ out = << >>

\* C11: pull requests are processed one at a time in enumeration order:
\* the loop takes position cur + 1 only after the outcome line of position
\* cur is printed, every command is run for the position the loop is at and
\* after that position's "Checking" line, and an outcome line is printed
\* for the position the loop is at; so the commands of two pull requests
\* never interleave.
C11_OneAtATime ==
    /\ [](/\ \A k \in 1..Len(cmds) : cmds[k].pr \in 1..cur
          /\ \A j, k \in 1..Len(cmds) : j < k => cmds[j].pr <= cmds[k].pr
          /\ Len(out) \in {2 * cur - 1, 2 * cur}
          /\ \A i \in 1..cur : out[2 * i - 1] = Checking(prs[i]))
    /\ [][ /\ cur' # cur =>
                 /\ cur' = cur + 1
                 /\ Len(out) = 2 * cur
                 /\ out' = Append(out, Checking(prs[cur']))
                 /\ cmds' = cmds
           /\ cmds' # cmds =>
                 /\ Len(cmds') = Len(cmds) + 1
                 /\ SubSeq(cmds', 1, Len(cmds)) = cmds
                 /\ cmds'[Len(cmds')].pr = cur
                 /\ cur' = cur
                 /\ Len(out) = 2 * cur - 1
           /\ out' # out /\ cur' = cur =>
                 /\ Len(out) = 2 * cur - 1
                 /\ Len(out') = 2 * cur ]_vars

C11_Witness ==
    /\ pc = "done"
    /\ Len(prs) = 2
    /\ prs[1] # prs[2]
    /\ Len(CmdsOf(1)) = 6
    /\ Len(CmdsOf(2)) = 6

\* C12: no command is retried: for each pull request each of fetch, reset,
\* clean, checkout, merge and checker is invoked at most once, a run makes
\* at most 6 * N subprocess invocations, and if every external call returns
\* the run eventually ends.
C12_NoRetries ==
    /\ [](/\ \A i \in 1..Len(prs) :
               \A step \in {"fetch", "reset", "clean", "checkout", "merge", "check"} :
                   Cardinality(Ran(i, step)) <= 1
          /\ Len(cmds) <= 6 * Len(prs))
    /\ <>Finished

C12_Witness ==
    /\ pc = "done"
    /\ Len(prs) = 2
    /\ Len(cmds) = 12

\* C13: the working directory changes to the work-tree path once, when the
\* with block is entered and before any pull request is taken or command
\* run, and changes again only when the run ends; every git command and
\* every checker invocation runs with the work-tree path as its directory.
C13_OneChdir ==
    /\ [](/\ \A k \in 1..Len(cmds) : cmds[k].cwd = environ["WORK_TREE"]
          /\ pc \notin {"start", "done", "crashed"} => cwd = environ["WORK_TREE"])
    /\ [][cwd' # cwd =>
             \/ /\ pc = "start"
                /\ cur = 0
                /\ cmds = << >>
                /\ cwd' = environ["WORK_TREE"]
             \/ /\ pc' \in {"done", "crashed"}
                /\ cwd' = launch_wd ]_vars

C13_Witness ==
    /\ pc = "done"
    /\ Len(prs) = 2
    /\ Len(CmdsOf(1)) = 1
    /\ Len(CmdsOf(2)) = 6
    /\ \A k \in 1..Len(cmds) : cmds[k].cwd = "/srv/clone"
    /\ cwd = "/home/dev"

\* The call for position i got past its checkout.
PastCheckout(i) == \E k \in Ran(i, "checkout") : cmds[k].exit = 0
FastForwarded(i) == \E k \in Ran(i, "merge") : cmds[k].exit = 0 /\ cmds[k].said = "Fast-forward"

C15_Isolation ==
    \A k \in 1..Len(cmds) :
        cmds[k].step = "check" =>
            LET i == cmds[k].pr
            IN  /\ \E r \in Ran(i, "reset"), c \in Ran(i, "clean") :
                      /\ cmds[r].exit = 0
                      /\ cmds[c].exit = 0
                      /\ r < c /\ c < k
                      /\ \A j \in 1..Len(cmds) : cmds[j].pr < i => j < r
                /\ ~cmds[k].found.untracked
                /\ cmds[k].found.changes = IF FastForwarded(i) THEN "none" ELSE "merged"
                /\ cmds[k].found.head =
                      IF FastForwarded(i) THEN "origin/" \o prs[i].head
                      ELSE "origin/" \o prs[i].base

\* The first iteration was aborted by a conflicted merge; the second found
\* the conflict and its checker ran all the same.
C15_Witness ==
    \E k \in 1..Len(cmds) :
        /\ cmds[k].step = "check"
        /\ cmds[k].pr = 2
        /\ Ran(1, "check") = {}
        /\ \E r \in Ran(2, "reset") : cmds[r].found.changes = "conflict"

CheckerConfigMissing == ~Has("FLAKE8_PATH") \/ ~Has("FLAKE8_CONFIG_PATH")

\* C16: with the work tree configured and FLAKE8_PATH or FLAKE8_CONFIG_PATH
\* missing, nothing is raised for it before a merge has succeeded; the
\* first pull request whose merge succeeds ends the run with an uncaught
\* error (the KeyError, or CommandNotFound when the path that is set names
\* no command), after fetch, reset, clean, checkout and merge have run on
\* the clone and before any checker runs; a run in which no merge succeeds,
\* or that takes no pull request, ends without the missing value raising.
C16_LazyLookup ==
    CheckerConfigMissing /\ Has("WORK_TREE") =>
        /\ \A k \in 1..Len(cmds) : cmds[k].step # "check"
        /\ cur = 0 => exc.type # "KeyError"
        /\ \A i \in 1..cur :
              Merged(i) =>
                  /\ i = cur
                  /\ \/ pc = "check"
                     \/ pc = "crashed" /\ exc.type \in {"KeyError", "CommandNotFound"}
        /\ exc.type \in {"KeyError", "CommandNotFound"} =>
              /\ pc = "crashed"
              /\ cur >= 1
              /\ Merged(cur)
              /\ Len(CmdsOf(cur)) = 5
              /\ tree.head # "refs/heads/main"
        /\ pc = "done" => exc.type \notin UnexpectedTypes

C16_Witness ==
    /\ ~Has("FLAKE8_CONFIG_PATH")
    /\ Getattr("FLAKE8_PATH") \in Executables
    /\ pc = "crashed"
    /\ exc.type = "KeyError"
    /\ cur = 2
    /\ ~Merged(1)
    /\ Merged(2)

\* C17: no step of the run sets or deletes a configuration value, so every
\* lookup of a name gives what the first one gave: all commands ran in the
\* directory WORK_TREE names and every checker invocation used the values
\* FLAKE8_PATH and FLAKE8_CONFIG_PATH name.
C17_ReadOnly ==
    /\ [][environ' = environ]_vars
    /\ [](\A k \in 1..Len(cmds) :
             /\ cmds[k].cwd = Getattr("WORK_TREE")
             /\ cmds[k].step = "check" =>
                   /\ cmds[k].argv[1] = Getattr("FLAKE8_PATH")
                   /\ cmds[k].argv[3] = "--config=" \o Getattr("FLAKE8_CONFIG_PATH"))

C17_Witness ==
    /\ pc = "done"
    /\ Len(prs) = 2
    /\ Ran(1, "check") # {}
    /\ Ran(2, "check") # {}
    /\ \A j \in Ran(1, "check"), k \in Ran(2, "check") : cmds[j].argv = cmds[k].argv

====
